---- MODULE Spec2Model ----
(***************************************************************************)
(* Model of the DKIM primitives of rrecord-verity:                         *)
(*   src/wasm/parser/src/lib.rs  parse_email_internal, parse_headers,      *)
(*                               canonicalize_body_simple                  *)
(*   src/wasm/crypto/src/lib.rs  sha256_hash, compute_body_hash,           *)
(*                               verify_ed25519, verify_rsa_sha256         *)
(* Every entry point is a pure function.  A behaviour is one call: Init    *)
(* draws the arguments, the action applies the function and records what   *)
(* it returned.  Text is a sequence of one-character strings.              *)
(***************************************************************************)
EXTENDS Integers, Sequences, FiniteSets, TLC

VARIABLES op, arg, ret, pc

vars == <<op, arg, ret, pc>>

-----------------------------------------------------------------------------
(* Bounds of the explored inputs.                                          *)

MaxFields == 2

MaxBodyLen == 5

MaxHashLen == 3

MaxFlips == 4

-----------------------------------------------------------------------------
(* Characters and the std::str operations the parser uses.                 *)

CR == "\r"

LF == "\n"

SP == " "

HT == "\t"

CRLF == <<CR, LF>>

\* char::is_whitespace, restricted to the characters of the model
IsWhitespace(c) == c \in {SP, HT, CR, LF}

Upper == <<"A", "B", "C", "D", "E", "F", "G", "H", "I", "J", "K", "L", "M",
           "N", "O", "P", "Q", "R", "S", "T", "U", "V", "W", "X", "Y", "Z">>

Lower == <<"a", "b", "c", "d", "e", "f", "g", "h", "i", "j", "k", "l", "m",
           "n", "o", "p", "q", "r", "s", "t", "u", "v", "w", "x", "y", "z">>

LowerChar(c) ==
  IF \E i \in DOMAIN Upper : Upper[i] = c
    THEN Lower[CHOOSE i \in DOMAIN Upper : Upper[i] = c]
    ELSE c

\* str::to_lowercase
to_lowercase(s) == [i \in DOMAIN s |-> LowerChar(s[i])]

\* s[from..]
Drop(s, n) == SubSeq(s, n + 1, Len(s))

\* s[..n]
Take(s, n) == SubSeq(s, 1, n)

\* str::starts_with
starts_with(s, p) == Len(p) <= Len(s) /\ Take(s, Len(p)) = p

\* str::ends_with
ends_with(s, p) == Len(p) <= Len(s) /\ Drop(s, Len(s) - Len(p)) = p

\* str::find: the 1-based index of the first occurrence of p, 0 for None
find(s, p) ==
  IF \E i \in 1..(Len(s) - Len(p) + 1) : SubSeq(s, i, i + Len(p) - 1) = p
    THEN CHOOSE i \in 1..(Len(s) - Len(p) + 1) :
           /\ SubSeq(s, i, i + Len(p) - 1) = p
           /\ \A j \in 1..(i - 1) : SubSeq(s, j, j + Len(p) - 1) # p
    ELSE 0

\* str::replace: every non-overlapping match of p, left to right
RECURSIVE replace(_, _, _)
replace(s, p, r) ==
  LET i == find(s, p)
  IN  IF i = 0 THEN s
      ELSE Take(s, i - 1) \o r \o replace(Drop(s, i - 1 + Len(p)), p, r)

\* str::trim_end
RECURSIVE trim_end(_)
trim_end(s) ==
  IF s # <<>> /\ IsWhitespace(s[Len(s)]) THEN trim_end(Take(s, Len(s) - 1)) ELSE s

\* str::trim_start
RECURSIVE trim_start(_)
trim_start(s) ==
  IF s # <<>> /\ IsWhitespace(s[1]) THEN trim_start(Drop(s, 1)) ELSE s

\* str::trim
trim(s) == trim_start(trim_end(s))

\* str::splitn(2, sep)
splitn2(s, sep) ==
  LET i == find(s, sep)
  IN  IF i = 0 THEN <<s>> ELSE <<Take(s, i - 1), Drop(s, i - 1 + Len(sep))>>

\* str::lines: split at LF, a CR before the LF belongs to the line ending,
\* and a final line ending does not open another, empty, line
RECURSIVE lines(_)
lines(s) ==
  IF s = <<>> THEN <<>>
  ELSE LET i    == find(s, <<LF>>)
           line == IF i = 0 THEN s ELSE Take(s, i - 1)
           rest == IF i = 0 THEN <<>> ELSE Drop(s, i)
           bare == IF i # 0 /\ ends_with(line, <<CR>>)
                     THEN Take(line, Len(line) - 1) ELSE line
       IN  <<bare>> \o lines(rest)

\* [String]::join(sep)
RECURSIVE join(_, _)
join(ls, sep) ==
  IF ls = <<>> THEN <<>>
  ELSE IF Len(ls) = 1 THEN ls[1]
  ELSE ls[1] \o sep \o join(Tail(ls), sep)

\* Concatenation of a sequence of texts
RECURSIVE Concat(_)
Concat(ls) == IF ls = <<>> THEN <<>> ELSE ls[1] \o Concat(Tail(ls))

\* The three replace calls that turn every line ending into CRLF
NormalizeLineEndings(s) ==
  replace(replace(replace(s, CRLF, <<LF>>), <<CR>>, <<LF>>), <<LF>>, CRLF)

-----------------------------------------------------------------------------
(* Results: Ok(v) and Err(e).                                              *)

Ok(v) == [ok |-> TRUE, val |-> v]

Err(e) == [ok |-> FALSE, err |-> e]

-----------------------------------------------------------------------------
(* The regex crate, as far as parse_headers uses it.  A pattern is the     *)
(* sequence of its syntax elements.                                        *)

\* r"\r\n(?=[^\s])"
header_pattern == <<"\\r", "\\n", "(?=", "[^\\s]", ")">>

\* The group openers of look-ahead and look-behind
LookAround == {"(?=", "(?!", "(?<=", "(?<!"}

\* Regex::new: the regex crate has no look-around; its parser rejects the
\* pattern with a syntax error
Regex_new(pattern) ==
  IF \E i \in DOMAIN pattern : pattern[i] \in LookAround
    THEN Err("look-around is not supported")
    ELSE Ok(pattern)

\* Where header_pattern matches at i: a CRLF directly followed by a
\* character that is not whitespace
HeaderBreakAt(s, i) ==
  /\ i + 2 <= Len(s)
  /\ s[i] = CR
  /\ s[i + 1] = LF
  /\ ~IsWhitespace(s[i + 2])

\* Regex::split for header_pattern: the pieces between the matches; the
\* look-ahead character is not part of the match
RECURSIVE Regex_split(_)
Regex_split(s) ==
  IF \E i \in 1..Len(s) : HeaderBreakAt(s, i)
    THEN LET i == CHOOSE k \in 1..Len(s) :
                    HeaderBreakAt(s, k) /\ \A j \in 1..(k - 1) : ~HeaderBreakAt(s, j)
         IN  <<Take(s, i - 1)>> \o Regex_split(Drop(s, i + 1))
    ELSE <<s>>

-----------------------------------------------------------------------------
(* Message Splitter.                                                        *)

\* headers.entry(name).or_insert_with(Vec::new).push(value)
EntryPush(headers, name, value) ==
  IF name \in DOMAIN headers
    THEN [headers EXCEPT ![name] = Append(@, value)]
    ELSE headers @@ (name :> <<value>>)

\* The for loop of parse_headers over header_lines[k..], headers so far
RECURSIVE HeaderLoop(_, _, _)
HeaderLoop(header_lines, k, headers) ==
  IF k > Len(header_lines) THEN Ok(headers)
  ELSE LET header_line == header_lines[k]
           colon_pos   == find(header_line, <<":">>)
       IN  IF trim(header_line) = <<>>
             THEN HeaderLoop(header_lines, k + 1, headers)
           ELSE IF colon_pos = 0
             THEN Err("Invalid header line")
           ELSE LET name  == to_lowercase(trim(Take(header_line, colon_pos - 1)))
                    value == header_line \o CRLF
                IN  HeaderLoop(header_lines, k + 1, EntryPush(headers, name, value))

\* The empty HashMap
EmptyMap == [n \in {} |-> <<>>]

parse_headers(header_section) ==
  LET header_regex == Regex_new(header_pattern)
  IN  IF ~header_regex.ok
        THEN Err("Regex error")
        ELSE HeaderLoop(Regex_split(header_section), 1, EmptyMap)

parse_email_internal(raw_message) ==
  LET normalized == NormalizeLineEndings(raw_message)
      parts      == splitn2(normalized, CRLF \o CRLF)
  IN  IF Len(parts) = 2
        THEN LET headers == parse_headers(parts[1])
             IN  IF headers.ok
                   THEN Ok([headers |-> headers.val, body |-> parts[2]])
                   ELSE headers
      ELSE IF ~ends_with(parts[1], CRLF)
        THEN Err("Headers don't end with CRLF")
      ELSE LET headers == parse_headers(parts[1])
           IN  IF headers.ok
                 THEN Ok([headers |-> headers.val, body |-> <<>>])
                 ELSE headers

-----------------------------------------------------------------------------
(* Canonicalizer.                                                           *)

canonicalize_body_simple(body) ==
  LET canonical == NormalizeLineEndings(body)
      trimmed   == [i \in DOMAIN lines(canonical) |-> trim_end(lines(canonical)[i])]
      joined    == join(trimmed, CRLF)
  IN  IF ~ends_with(joined, CRLF) THEN joined \o CRLF ELSE joined

-----------------------------------------------------------------------------
(* Bytes are 0..255.  A 32-bit word is the pair <<high 16 bits, low 16      *)
(* bits>>, so that no intermediate value leaves the integers of the model   *)
(* checker.                                                                 *)

\* 2^n
RECURSIVE Pow2(_)
Pow2(n) == IF n = 0 THEN 1 ELSE 2 * Pow2(n - 1)

\* Bitwise XOR and AND of 4-bit values
Xor4 ==
  [a \in 0..15, b \in 0..15 |->
     ((a + b) % 2) + 2 * (((a \div 2) + (b \div 2)) % 2)
       + 4 * (((a \div 4) + (b \div 4)) % 2) + 8 * (((a \div 8) + (b \div 8)) % 2)]

And4 ==
  [a \in 0..15, b \in 0..15 |->
     ((a % 2) * (b % 2)) + 2 * (((a \div 2) % 2) * ((b \div 2) % 2))
       + 4 * (((a \div 4) % 2) * ((b \div 4) % 2)) + 8 * ((a \div 8) * (b \div 8))]

\* Bitwise XOR and AND of 16-bit values
Xor16(a, b) ==
  Xor4[a % 16, b % 16] + 16 * Xor4[(a \div 16) % 16, (b \div 16) % 16]
    + 256 * Xor4[(a \div 256) % 16, (b \div 256) % 16]
    + 4096 * Xor4[a \div 4096, b \div 4096]

And16(a, b) ==
  And4[a % 16, b % 16] + 16 * And4[(a \div 16) % 16, (b \div 16) % 16]
    + 256 * And4[(a \div 256) % 16, (b \div 256) % 16]
    + 4096 * And4[a \div 4096, b \div 4096]

WXor(a, b) == <<Xor16(a[1], b[1]), Xor16(a[2], b[2])>>

WAnd(a, b) == <<And16(a[1], b[1]), And16(a[2], b[2])>>

WNot(a) == <<65535 - a[1], 65535 - a[2]>>

\* Addition modulo 2^32
WAdd(a, b) ==
  LET lo == a[2] + b[2]
      hi == a[1] + b[1] + (lo \div 65536)
  IN  <<hi % 65536, lo % 65536>>

\* Rotation to the right by n, 0 < n < 32, n # 16
WRotr(a, n) ==
  LET x == IF n > 16 THEN <<a[2], a[1]>> ELSE a
      m == IF n > 16 THEN n - 16 ELSE n
  IN  << (x[1] \div Pow2(m)) + (x[2] % Pow2(m)) * Pow2(16 - m),
         (x[2] \div Pow2(m)) + (x[1] % Pow2(m)) * Pow2(16 - m) >>

\* Shift to the right by n, 0 < n < 16
WShr(a, n) ==
  << a[1] \div Pow2(n), (a[2] \div Pow2(n)) + (a[1] % Pow2(n)) * Pow2(16 - n) >>

SHA256_K ==
  <<
    <<17034, 12184>>, <<28983, 17553>>, <<46528, 64463>>, <<59829, 56229>>,
    <<14678, 49755>>, <<23025, 4593>>, <<37439, 33444>>, <<43804, 24277>>,
    <<55303, 43672>>, <<4739, 23297>>, <<9265, 34238>>, <<21772, 32195>>,
    <<29374, 23924>>, <<32990, 45566>>, <<39900, 1703>>, <<49563, 61812>>,
    <<58523, 27073>>, <<61374, 18310>>, <<4033, 40390>>, <<9228, 41420>>,
    <<11753, 11375>>, <<19060, 33962>>, <<23728, 43484>>, <<30457, 35034>>,
    <<38974, 20818>>, <<43057, 50797>>, <<45059, 10184>>, <<48985, 32711>>,
    <<50912, 3059>>, <<54695, 37191>>, <<1738, 25425>>, <<5161, 10599>>,
    <<10167, 2693>>, <<11803, 8504>>, <<19756, 28156>>, <<21304, 3347>>,
    <<25866, 29524>>, <<30314, 2747>>, <<33218, 51502>>, <<37490, 11397>>,
    <<41663, 59553>>, <<43034, 26187>>, <<49739, 35696>>, <<51052, 20899>>,
    <<53650, 59417>>, <<54937, 1572>>, <<62478, 13701>>, <<4202, 41072>>,
    <<6564, 49430>>, <<7735, 27656>>, <<10056, 30540>>, <<13488, 48309>>,
    <<14620, 3251>>, <<20184, 43594>>, <<23452, 51791>>, <<26670, 28659>>,
    <<29839, 33518>>, <<30885, 25455>>, <<33992, 30740>>, <<36039, 520>>,
    <<37054, 65530>>, <<42064, 27883>>, <<48889, 41975>>, <<50801, 30962>> >>

SHA256_H0 ==
  <<
    <<27145, 58983>>, <<47975, 44677>>, <<15470, 62322>>, <<42319, 62778>>,
    <<20750, 21119>>, <<39685, 26764>>, <<8067, 55723>>, <<23520, 52505>> >>

BigSigma0(x) == WXor(WXor(WRotr(x, 2), WRotr(x, 13)), WRotr(x, 22))

BigSigma1(x) == WXor(WXor(WRotr(x, 6), WRotr(x, 11)), WRotr(x, 25))

SmallSigma0(x) == WXor(WXor(WRotr(x, 7), WRotr(x, 18)), WShr(x, 3))

SmallSigma1(x) == WXor(WXor(WRotr(x, 17), WRotr(x, 19)), WShr(x, 10))

Ch(x, y, z) == WXor(WAnd(x, y), WAnd(WNot(x), z))

Maj(x, y, z) == WXor(WXor(WAnd(x, y), WAnd(x, z)), WAnd(y, z))

\* The message with its padding: 0x80, zeros up to 56 modulo 64, and the
\* length in bits as 8 big-endian bytes
Sha256Pad(data) ==
  LET n     == Len(data)
      zeros == (119 - (n % 64)) % 64
      bits  == [i \in 1..8 |->
                 IF i < 5 THEN 0
                 ELSE IF i = 5 THEN (n \div 2097152) % 256
                 ELSE IF i = 6 THEN (n \div 8192) % 256
                 ELSE IF i = 7 THEN (n \div 32) % 256
                 ELSE (n * 8) % 256]
  IN  data \o <<128>> \o [i \in 1..zeros |-> 0] \o bits

\* The 16 words of block b (from 0) of the padded message
BlockWords(padded, b) ==
  [t \in 1..16 |->
     << padded[64 * b + 4 * t - 3] * 256 + padded[64 * b + 4 * t - 2],
        padded[64 * b + 4 * t - 1] * 256 + padded[64 * b + 4 * t] >>]

\* The message schedule, extended from 16 to 64 words
RECURSIVE Schedule(_)
Schedule(w) ==
  IF Len(w) = 64 THEN w
  ELSE LET t == Len(w) + 1
       IN  Schedule(Append(w, WAdd(WAdd(SmallSigma1(w[t - 2]), w[t - 7]),
                                    WAdd(SmallSigma0(w[t - 15]), w[t - 16]))))

\* One round of the compression function on the working variables v
Round(v, wt, kt) ==
  LET t1 == WAdd(WAdd(WAdd(v[8], BigSigma1(v[5])), WAdd(Ch(v[5], v[6], v[7]), kt)), wt)
      t2 == WAdd(BigSigma0(v[1]), Maj(v[1], v[2], v[3]))
  IN  <<WAdd(t1, t2), v[1], v[2], v[3], WAdd(v[4], t1), v[5], v[6], v[7]>>

\* The working variables before round 1 and after each of the 64 rounds
RECURSIVE Rounds(_, _)
Rounds(vs, w) ==
  IF Len(vs) = 65 THEN vs
  ELSE Rounds(Append(vs, Round(vs[Len(vs)], w[Len(vs)], SHA256_K[Len(vs)])), w)

\* The hash state after blocks b.. of the padded message
RECURSIVE Sha256Blocks(_, _, _)
Sha256Blocks(h, padded, b) ==
  IF 64 * b >= Len(padded) THEN h
  ELSE LET v == Rounds(<<h>>, Schedule(BlockWords(padded, b)))[65]
       IN  Sha256Blocks([i \in 1..8 |-> WAdd(h[i], v[i])], padded, b + 1)

\* Sha256::new(), update(data), finalize(): the 32 bytes of the digest
Sha256(data) ==
  LET h == Sha256Blocks(SHA256_H0, Sha256Pad(data), 0)
  IN  [i \in 1..32 |->
         LET w == h[((i - 1) \div 4) + 1]
             k == (i - 1) % 4
         IN  IF k = 0 THEN w[1] \div 256
             ELSE IF k = 1 THEN w[1] % 256
             ELSE IF k = 2 THEN w[2] \div 256
             ELSE w[2] % 256]

-----------------------------------------------------------------------------
(* Codec: base64, standard alphabet, padded.                                *)

B64Alphabet ==
  <<"A", "B", "C", "D", "E", "F", "G", "H", "I", "J", "K", "L", "M",
    "N", "O", "P", "Q", "R", "S", "T", "U", "V", "W", "X", "Y", "Z",
    "a", "b", "c", "d", "e", "f", "g", "h", "i", "j", "k", "l", "m",
    "n", "o", "p", "q", "r", "s", "t", "u", "v", "w", "x", "y", "z",
    "0", "1", "2", "3", "4", "5", "6", "7", "8", "9", "+", "/">>

B64Pad == "="

\* general_purpose::STANDARD.encode
RECURSIVE base64_encode(_)
base64_encode(data) ==
  IF data = <<>> THEN <<>>
  ELSE IF Len(data) = 1
    THEN << B64Alphabet[(data[1] \div 4) + 1],
            B64Alphabet[(data[1] % 4) * 16 + 1], B64Pad, B64Pad >>
  ELSE IF Len(data) = 2
    THEN << B64Alphabet[(data[1] \div 4) + 1],
            B64Alphabet[(data[1] % 4) * 16 + (data[2] \div 16) + 1],
            B64Alphabet[(data[2] % 16) * 4 + 1], B64Pad >>
  ELSE << B64Alphabet[(data[1] \div 4) + 1],
          B64Alphabet[(data[1] % 4) * 16 + (data[2] \div 16) + 1],
          B64Alphabet[(data[2] % 16) * 4 + (data[3] \div 64) + 1],
          B64Alphabet[(data[3] % 64) + 1] >> \o base64_encode(Drop(data, 3))

\* The 6-bit value of a symbol of the alphabet, -1 for any other character
B64Value(c) ==
  IF \E i \in DOMAIN B64Alphabet : B64Alphabet[i] = c
    THEN (CHOOSE i \in DOMAIN B64Alphabet : B64Alphabet[i] = c) - 1
    ELSE -1

\* The bytes of the complete 4-symbol groups of s
RECURSIVE B64Groups(_)
B64Groups(s) ==
  IF s = <<>> THEN <<>>
  ELSE LET a == B64Value(s[1])
           b == B64Value(s[2])
           c == B64Value(s[3])
           d == B64Value(s[4])
       IN  << a * 4 + (b \div 16), (b % 16) * 16 + (c \div 4), (c % 4) * 64 + d >>
             \o B64Groups(Drop(s, 4))

\* general_purpose::STANDARD.decode: the length is a multiple of 4, padding
\* is canonical and only at the end, every other character is a symbol, and
\* the unused bits of the last symbol are zero
base64_decode(s) ==
  LET n    == Len(s)
      pads == IF n >= 2 /\ s[n] = B64Pad /\ s[n - 1] = B64Pad THEN 2
              ELSE IF n >= 1 /\ s[n] = B64Pad THEN 1 ELSE 0
      syms == Take(s, n - pads)
      last == IF syms = <<>> THEN 0 ELSE B64Value(syms[Len(syms)])
  IN  IF \/ n % 4 # 0
         \/ \E i \in DOMAIN syms : B64Value(syms[i]) < 0
         \/ pads = 2 /\ last % 16 # 0
         \/ pads = 1 /\ last % 4 # 0
        THEN Err("Base64 decode error")
      ELSE IF pads = 0 THEN Ok(B64Groups(syms))
      ELSE LET whole == B64Groups(Take(syms, Len(syms) - (4 - pads)))
               a     == B64Value(syms[Len(syms) - (3 - pads)])
               b     == B64Value(syms[Len(syms) - (3 - pads) + 1])
               c     == IF pads = 1 THEN B64Value(syms[Len(syms)]) ELSE 0
           IN  IF pads = 2
                 THEN Ok(whole \o << a * 4 + (b \div 16) >>)
                 ELSE Ok(whole \o << a * 4 + (b \div 16), (b % 16) * 16 + (c \div 4) >>)

-----------------------------------------------------------------------------
(* Digest Engine.                                                           *)

sha256_hash(data) == base64_encode(Sha256(data))

\* What &body[..length] does: the prefix, or a panic when length is past
\* the end of the slice
SliceTo(body, length) ==
  IF length > Len(body) THEN Err("panic: range end index out of range")
  ELSE Ok(Take(body, length))

\* compute_body_hash without the test against the length of the body
compute_body_hash_unguarded(body, length) ==
  LET data == IF length > 0 THEN SliceTo(body, length) ELSE Ok(body)
  IN  IF data.ok THEN Ok(base64_encode(Sha256(data.val))) ELSE data

compute_body_hash(body, length) ==
  LET data == IF length > 0 /\ length < Len(body)
                THEN SliceTo(body, length)
                ELSE Ok(body)
  IN  IF data.ok THEN Ok(base64_encode(Sha256(data.val))) ELSE data

-----------------------------------------------------------------------------
(* Signature Verifier.  The arithmetic of Ed25519 and RSA is outside the    *)
(* integers of the model checker: the two libraries are modelled on known   *)
(* keys and signatures and on the byte strings derived from them.           *)

\* The byte string with bit i flipped (bit i % 8 of byte i \div 8)
FlipBit(bytes, i) ==
  LET k == (i \div 8) + 1
      m == Pow2(i % 8)
  IN  [bytes EXCEPT ![k] = IF (@ \div m) % 2 = 1 THEN @ - m ELSE @ + m]

\* RFC 8032, section 7.1, TEST 2: the public key, the message (one
\* byte) and the signature of the message by the matching private key
Ed25519PublicKey ==
  << 61, 64, 23, 195, 232, 67, 137, 90, 146, 183, 10, 167, 77, 27, 126, 188,
     156, 152, 44, 207, 46, 196, 150, 140, 192, 205, 85, 241, 42, 244, 102, 12 >>

Ed25519Message == <<114>>

Ed25519Signature ==
  << 146, 160, 9, 169, 240, 212, 202, 184, 114, 14, 130, 11, 95, 100, 37, 64,
     162, 178, 123, 84, 22, 80, 63, 143, 179, 118, 34, 35, 235, 219, 105, 218,
     8, 90, 193, 228, 62, 21, 153, 110, 69, 143, 54, 19, 208, 241, 29, 140,
     56, 123, 46, 174, 180, 48, 42, 238, 176, 13, 41, 22, 18, 187, 12, 0 >>

\* The bits of Ed25519PublicKey (bit i is bit i % 8 of byte i \div 8)
\* whose flip leaves 32 bytes that are not the encoding of a curve point
Ed25519OffCurveFlips ==
  { 3, 4, 5, 6, 9, 10, 11, 13, 14, 15, 16, 19, 21, 28, 29, 33,
    34, 37, 38, 39, 40, 41, 43, 45, 47, 48, 49, 51, 52, 54, 59, 60,
    62, 63, 64, 65, 68, 69, 74, 75, 77, 78, 81, 82, 84, 86, 87, 91,
    92, 94, 96, 98, 99, 102, 105, 106, 107, 109, 110, 111, 114, 115, 117, 120,
    122, 123, 130, 136, 138, 139, 143, 144, 148, 150, 151, 152, 154, 155, 156, 157,
    158, 160, 163, 164, 166, 170, 172, 175, 179, 181, 182, 183, 188, 189, 190, 191,
    192, 196, 198, 200, 205, 206, 208, 211, 213, 214, 220, 222, 224, 225, 226, 230,
    234, 236, 237, 238, 239, 241, 245, 248, 251 }

\* CompressedEdwardsY::decompress succeeds: the 32 bytes encode a curve
\* point (Ed25519PublicKey and the byte strings one bit away from it)
IsPointEncoding(bytes) ==
  \/ bytes = Ed25519PublicKey
  \/ \E i \in 0..255 :
       i \notin Ed25519OffCurveFlips /\ bytes = FlipBit(Ed25519PublicKey, i)

\* VerifyingKey::from_bytes(&[u8; 32])
VerifyingKey_from_bytes(bytes) ==
  IF IsPointEncoding(bytes) THEN Ok(bytes) ELSE Err("Cannot decompress Edwards point")

\* VerifyingKey::verify(message, &signature) is Ok: of the keys, messages
\* and signatures of the model, the verification equation holds of the
\* signed message under the signing key only
Ed25519Verify(verifying_key, message, signature) ==
  /\ verifying_key = Ed25519PublicKey
  /\ message = Ed25519Message
  /\ signature = Ed25519Signature

PUBLIC_KEY_LENGTH == 32

SIGNATURE_LENGTH == 64

\* verify_ed25519 reporting a key that is no curve point as a failed
\* verification
verify_ed25519_key_error_as_false(public_key, message, signature) ==
  LET pub_key_bytes == base64_decode(public_key)
      sig_bytes     == base64_decode(signature)
      verifying_key == VerifyingKey_from_bytes(pub_key_bytes.val)
  IN  IF ~pub_key_bytes.ok THEN Err("Invalid public key")
      ELSE IF ~sig_bytes.ok THEN Err("Invalid signature")
      ELSE IF Len(pub_key_bytes.val) # PUBLIC_KEY_LENGTH
        THEN Err("Public key must be 32 bytes")
      ELSE IF ~verifying_key.ok THEN Ok(FALSE)
      ELSE IF Len(sig_bytes.val) # SIGNATURE_LENGTH
        THEN Err("Signature must be 64 bytes")
      ELSE Ok(Ed25519Verify(verifying_key.val, message, sig_bytes.val))

verify_ed25519(public_key, message, signature) ==
  LET pub_key_bytes == base64_decode(public_key)
      sig_bytes     == base64_decode(signature)
      verifying_key == VerifyingKey_from_bytes(pub_key_bytes.val)
  IN  IF ~pub_key_bytes.ok THEN Err("Invalid public key")
      ELSE IF ~sig_bytes.ok THEN Err("Invalid signature")
      ELSE IF Len(pub_key_bytes.val) # PUBLIC_KEY_LENGTH
        THEN Err("Public key must be 32 bytes")
      ELSE IF ~verifying_key.ok THEN Err("Invalid Ed25519 key")
      ELSE IF Len(sig_bytes.val) # SIGNATURE_LENGTH
        THEN Err("Signature must be 64 bytes")
      ELSE Ok(Ed25519Verify(verifying_key.val, message, sig_bytes.val))

\* A PKCS#1 RSAPublicKey in DER: a 512-bit modulus and the exponent 65537
RsaPublicKeyDer ==
  << 48, 72, 2, 65, 0, 204, 169, 122, 179, 50, 30, 81, 150, 144, 67, 6,
     115, 35, 116, 218, 175, 18, 65, 33, 140, 157, 209, 149, 209, 113, 184, 176,
     93, 233, 41, 45, 242, 244, 12, 74, 229, 30, 255, 124, 35, 134, 91, 58,
     30, 0, 70, 156, 1, 185, 201, 168, 78, 182, 41, 58, 67, 36, 196, 126,
     84, 105, 198, 122, 41, 2, 3, 1, 0, 1 >>

RsaMessage == <<100, 107, 105, 109>>

\* The PKCS#1 v1.5 SHA-256 signature of RsaMessage by the matching private key
RsaSignature ==
  << 201, 68, 236, 8, 38, 69, 9, 206, 43, 97, 105, 229, 157, 172, 15, 153,
     221, 48, 20, 94, 81, 200, 158, 255, 233, 252, 192, 104, 105, 24, 14, 162,
     145, 109, 63, 143, 224, 232, 131, 108, 174, 246, 49, 116, 108, 180, 94, 80,
     146, 59, 155, 39, 201, 207, 171, 45, 247, 78, 193, 66, 73, 103, 227, 71 >>

\* The header of a DER element with the given tag at position i of b: where
\* its content starts and how long it is
DerHeader(b, i, tag) ==
  IF i + 1 > Len(b) \/ b[i] # tag THEN Err("DER")
  ELSE IF b[i + 1] < 128
    THEN IF i + 1 + b[i + 1] <= Len(b)
           THEN Ok([start |-> i + 2, len |-> b[i + 1]]) ELSE Err("DER")
  ELSE IF b[i + 1] = 129 /\ i + 2 <= Len(b) /\ b[i + 2] >= 128
            /\ i + 2 + b[i + 2] <= Len(b)
    THEN Ok([start |-> i + 3, len |-> b[i + 2]])
  ELSE IF b[i + 1] = 130 /\ i + 3 <= Len(b) /\ b[i + 2] > 0
            /\ i + 3 + b[i + 2] * 256 + b[i + 3] <= Len(b)
    THEN Ok([start |-> i + 4, len |-> b[i + 2] * 256 + b[i + 3]])
  ELSE Err("DER")

\* The content of a DER INTEGER is a non-negative number in its shortest form
IsDerUint(c) ==
  /\ c # <<>>
  /\ c[1] < 128
  /\ Len(c) > 1 /\ c[1] = 0 => c[2] >= 128

\* BigUint::from_bytes_be: the number, as its bytes without leading zeros
RECURSIVE StripZeros(_)
StripZeros(c) == IF c # <<>> /\ c[1] = 0 THEN StripZeros(Tail(c)) ELSE c

\* RsaPublicKey::from_pkcs1_der: SEQUENCE { modulus INTEGER, publicExponent
\* INTEGER } and nothing else; the exponent is at least 2 and below 2^33
RsaPublicKey_from_pkcs1_der(der) ==
  LET top == DerHeader(der, 1, 48)
      n   == DerHeader(der, top.val.start, 2)
      e   == DerHeader(der, n.val.start + n.val.len, 2)
      nc  == SubSeq(der, n.val.start, n.val.start + n.val.len - 1)
      ec  == SubSeq(der, e.val.start, e.val.start + e.val.len - 1)
  IN  IF ~top.ok \/ top.val.start + top.val.len - 1 # Len(der) THEN Err("Asn1")
      ELSE IF ~n.ok \/ ~IsDerUint(nc) THEN Err("Asn1")
      ELSE IF ~e.ok \/ ~IsDerUint(ec) \/ e.val.start + e.val.len - 1 # Len(der)
        THEN Err("Asn1")
      ELSE IF StripZeros(nc) = <<>> \/ StripZeros(ec) \in {<<>>, <<1>>}
        THEN Err("PublicExponentTooSmall")
      ELSE IF Len(StripZeros(ec)) > 5 \/ (Len(StripZeros(ec)) = 5 /\ StripZeros(ec)[1] > 1)
        THEN Err("PublicExponentTooLarge")
      ELSE Ok([n |-> StripZeros(nc), e |-> StripZeros(ec)])

\* PublicKey::size: the length of the modulus in bytes
RsaSize(public_key) == Len(public_key.n)

\* PublicKey::verify with PKCS#1 v1.5 padding, TRUE for Ok(()): the results
\* the rsa crate can give.  The signature of a digest under a key is one
\* number; of the keys, digests and signatures of the model, RsaSignature
\* is the signature of the digest of RsaMessage under RsaPublicKeyDer.
\* Releases of the crate differ on that number written with another length
\* (leading zero bytes): the older ones compare the number, the later ones
\* compare the length first.  A modulus too short for the 19 bytes of the
\* DigestInfo prefix, the digest and 11 bytes of padding verifies nothing.
RsaVerify(public_key, hashed, sig) ==
  IF RsaSize(public_key) < 19 + Len(hashed) + 11 THEN {FALSE}
  ELSE IF /\ public_key = RsaPublicKey_from_pkcs1_der(RsaPublicKeyDer).val
          /\ hashed = Sha256(RsaMessage)
          /\ StripZeros(sig) = StripZeros(RsaSignature)
    THEN IF Len(sig) = RsaSize(public_key) THEN {TRUE} ELSE {TRUE, FALSE}
  ELSE {FALSE}

\* The results verify_rsa_sha256 can return
verify_rsa_sha256(public_key_der, message, signature) ==
  LET pub_key_bytes == base64_decode(public_key_der)
      sig_bytes     == base64_decode(signature)
      public_key    == RsaPublicKey_from_pkcs1_der(pub_key_bytes.val)
      hash          == Sha256(message)
  IN  IF ~pub_key_bytes.ok THEN {Err("Invalid public key")}
      ELSE IF ~sig_bytes.ok THEN {Err("Invalid signature")}
      ELSE IF ~public_key.ok THEN {Err("Invalid RSA key")}
      ELSE {Ok(v) : v \in RsaVerify(public_key.val, hash, sig_bytes.val)}

-----------------------------------------------------------------------------
(* Inputs of the Message Splitter.                                          *)

\* A literal as text
From == <<"F", "r", "o", "m">>

FROM == <<"F", "R", "O", "M">>

Subject == <<"S", "u", "b", "j", "e", "c", "t">>

\* The line endings a raw message may use
Eols == {<<LF>>, CRLF, <<CR>>}

\* Header fields, without their final line ending, of a message whose
\* line ending is eol: plain, folded with a space or a tab, without a
\* colon, and blank
Fields(eol) ==
  { From \o <<":", SP, "a">>,
    Subject \o <<":", SP, "b">>,
    FROM \o <<":", "c">>,
    Subject \o <<":", SP, "b">> \o eol \o <<SP, "c">>,
    From \o <<":">> \o eol \o <<HT, "a">>,
    <<"x">>,
    <<SP>> }

\* Bodies
Bodies ==
  { <<>>, <<"B">>, <<"B", LF, "C">>, <<"B", CR, LF>>, <<CR, LF, "B">>,
    <<"B", CR, "C", LF>>, <<":", SP>> }

\* The message of test_parse_simple_email
TestEmail ==
  From \o <<":", SP, "t", "e", "s", "t", "@", "e", "x", "a", "m", "p", "l", "e", ".",
            "c", "o", "m", CR, LF>>
    \o Subject \o <<":", SP, "T", "e", "s", "t", CR, LF, CR, LF, "B", "o", "d", "y">>

\* All sequences over S of length at most n
SeqUpTo(S, n) == UNION { [1..k -> S] : k \in 0..n }

\* The header block: every field followed by the line ending
HeaderBlock(fs, eol) == Concat([i \in DOMAIN fs |-> fs[i] \o eol])

\* Raw messages: a header block, then a blank line and a body, or nothing
\* (headers only), or headers only with the last line ending missing
RawMessages ==
  {TestEmail} \cup UNION { UNION { { HeaderBlock(fs, eol) \o eol \o b : b \in Bodies }
                  \cup { HeaderBlock(fs, eol),
                         Take(HeaderBlock(fs, eol), Len(HeaderBlock(fs, eol)) - Len(eol)) }
                : fs \in SeqUpTo(Fields(eol), MaxFields) }
        : eol \in Eols }

\* Header sections as parse_email_internal hands them to parse_headers
HeaderSections ==
  UNION { { Take(HeaderBlock(fs, CRLF), Len(HeaderBlock(fs, CRLF)) - 2),
            HeaderBlock(fs, CRLF) }
        : fs \in SeqUpTo(Fields(CRLF), MaxFields) \ {<<>>} }

\* Bodies handed to canonicalize_body_simple
BodyChars == {"a", SP, CR, LF}

RawBodies == SeqUpTo(BodyChars, MaxBodyLen)

-----------------------------------------------------------------------------
(* One call of an entry point.                                              *)

None == "none"

ParseInit ==
  /\ pc = "call"
  /\ ret = None
  /\ \/ op = "parse_email_internal" /\ arg \in RawMessages
     \/ op = "parse_headers" /\ arg \in HeaderSections

ParseEmail ==
  /\ pc = "call"
  /\ op = "parse_email_internal"
  /\ ret' = parse_email_internal(arg)
  /\ pc' = "done"
  /\ UNCHANGED <<op, arg>>

ParseHeaders ==
  /\ pc = "call"
  /\ op = "parse_headers"
  /\ ret' = parse_headers(arg)
  /\ pc' = "done"
  /\ UNCHANGED <<op, arg>>

ParseNext == ParseEmail \/ ParseHeaders

SpecParse == ParseInit /\ [][ParseNext]_vars

CanonInit ==
  /\ pc = "call"
  /\ ret = None
  /\ op = "canonicalize_body_simple"
  /\ arg \in RawBodies

\* canonicalize_body_simple(body)
Canonicalize ==
  /\ pc = "call"
  /\ op = "canonicalize_body_simple"
  /\ ret' = canonicalize_body_simple(arg)
  /\ pc' = "done"
  /\ UNCHANGED <<op, arg>>

\* canonicalize_body_simple applied to its own output
CanonicalizeAgain ==
  /\ pc = "done"
  /\ op = "canonicalize_body_simple"
  /\ arg' = ret
  /\ ret' = canonicalize_body_simple(ret)
  /\ pc' = "again"
  /\ UNCHANGED op

CanonNext == Canonicalize \/ CanonicalizeAgain

SpecCanon == CanonInit /\ [][CanonNext]_vars

-----------------------------------------------------------------------------
(* Inputs of the Digest Engine and of the Signature Verifier.               *)

HashBytes == {0, 97, 255}

HashBodies == SeqUpTo(HashBytes, MaxHashLen)

\* Body-length limits: none (0), inside the body, its length, and past it
HashLimits == 0..(MaxHashLen + 2)

\* The bits that are flipped
FlipBits == 0..(MaxFlips - 1)

\* A text that is not base64: the padding is cut off
Unpadded(s) == Take(s, Len(s) - 1)

\* Byte strings around b: b, b with one bit flipped, b without its last
\* byte, b with one more byte
Around(b) ==
  {b, Take(b, Len(b) - 1), b \o <<0>>} \cup { FlipBit(b, i) : i \in FlipBits }

Ed25519KeyInputs ==
  { base64_encode(k) : k \in Around(Ed25519PublicKey) }
    \cup { Unpadded(base64_encode(Ed25519PublicKey)) }

Ed25519SignatureInputs ==
  { base64_encode(s) : s \in Around(Ed25519Signature) }
    \cup { Unpadded(base64_encode(Ed25519Signature)) }

Ed25519MessageInputs == {Ed25519Message} \cup { FlipBit(Ed25519Message, i) : i \in FlipBits }

RsaKeyInputs ==
  { base64_encode(k) : k \in Around(RsaPublicKeyDer) \cup {Take(RsaPublicKeyDer, 31)} }
    \cup { Unpadded(base64_encode(Take(RsaPublicKeyDer, 31))) }

RsaSignatureInputs ==
  { base64_encode(s) : s \in Around(RsaSignature) \cup {<<0>> \o RsaSignature} }
    \cup { Unpadded(base64_encode(RsaSignature)) }

RsaMessageInputs == {RsaMessage} \cup { FlipBit(RsaMessage, i) : i \in FlipBits }

HashInit ==
  /\ pc = "call"
  /\ ret = None
  /\ \/ op = "sha256_hash" /\ arg \in HashBodies
     \/ /\ op = "compute_body_hash"
        /\ arg \in [body : HashBodies, length : HashLimits]

Sha256Hash ==
  /\ pc = "call"
  /\ op = "sha256_hash"
  /\ ret' = sha256_hash(arg)
  /\ pc' = "done"
  /\ UNCHANGED <<op, arg>>

ComputeBodyHash ==
  /\ pc = "call"
  /\ op = "compute_body_hash"
  /\ ret' = compute_body_hash(arg.body, arg.length)
  /\ pc' = "done"
  /\ UNCHANGED <<op, arg>>

HashNext == Sha256Hash \/ ComputeBodyHash

SpecHash == HashInit /\ [][HashNext]_vars

VerifyInit ==
  /\ pc = "call"
  /\ ret = None
  /\ \/ /\ op = "verify_ed25519"
        /\ arg \in [public_key : Ed25519KeyInputs, message : Ed25519MessageInputs,
                    signature : Ed25519SignatureInputs]
     \/ /\ op = "verify_rsa_sha256"
        /\ arg \in [public_key : RsaKeyInputs, message : RsaMessageInputs,
                    signature : RsaSignatureInputs]

VerifyEd25519 ==
  /\ pc = "call"
  /\ op = "verify_ed25519"
  /\ ret' = verify_ed25519(arg.public_key, arg.message, arg.signature)
  /\ pc' = "done"
  /\ UNCHANGED <<op, arg>>

VerifyRsaSha256 ==
  /\ pc = "call"
  /\ op = "verify_rsa_sha256"
  /\ ret' \in verify_rsa_sha256(arg.public_key, arg.message, arg.signature)
  /\ pc' = "done"
  /\ UNCHANGED <<op, arg>>

VerifyNext == VerifyEd25519 \/ VerifyRsaSha256

SpecVerify == VerifyInit /\ [][VerifyNext]_vars

-----------------------------------------------------------------------------
(* The whole library: one call of any entry point.                          *)

Init == ParseInit \/ CanonInit \/ HashInit \/ VerifyInit

Next == ParseNext \/ CanonNext \/ HashNext \/ VerifyNext

Spec == Init /\ [][Next]_vars

-----------------------------------------------------------------------------
(* Properties.                                                              *)

Done(f) == pc = "done" /\ op = f

\* A message made of a From field and a Subject field, a blank line and body b
FromSubjectMessage(eol, b) ==
  HeaderBlock(<<From \o <<":", SP, "a">>, Subject \o <<":", SP, "b">>>>, eol) \o eol \o b

\* C1: a message made of a From field and a Subject field, a blank line
\* and a body B, in any line-ending convention, is parsed successfully into
\* a header map with the keys "from" and "subject" and the body exactly B;
\* the message of test_parse_simple_email is one of them, with body "Body".
C1_FromSubjectBody ==
  \A m \in { [raw |-> FromSubjectMessage(eol, b), body |-> b] : eol \in Eols, b \in Bodies }
           \cup { [raw |-> TestEmail, body |-> <<"B", "o", "d", "y">>] } :
    Done("parse_email_internal") /\ arg = m.raw
      => /\ ret.ok
         /\ {to_lowercase(From), to_lowercase(Subject)} \subseteq DOMAIN ret.val.headers
         /\ ret.val.body = m.body

\* No call of parse_email_internal or of parse_headers returns Ok: the
\* header pattern does not compile, whatever the message.  Statements about
\* the messages that parse_email_internal accepts are about no message.
ParseNeverSucceeds ==
  pc = "done" /\ op \in {"parse_email_internal", "parse_headers"} => ~ret.ok

\* A header field folded onto a second line that starts with a space or a tab
FoldedFields ==
  { Subject \o <<":", SP, "b">> \o CRLF \o <<SP, "c">>,
    From \o <<":">> \o CRLF \o <<HT, "a">> }

\* C2: a header field folded across two physical lines is returned by
\* parse_headers as a single value under its lowercased name, the value
\* still contains the embedded line break, and the continuation line is
\* neither a field of its own nor a missing-colon error.
C2_FoldedFieldIsOneValue ==
  \A f \in FoldedFields :
    Done("parse_headers") /\ arg = f
      => LET name == to_lowercase(Take(f, find(f, <<":">>) - 1))
         IN  /\ ret.ok
             /\ DOMAIN ret.val = {name}
             /\ Len(ret.val[name]) = 1
             /\ starts_with(ret.val[name][1], f)

\* C5: the output of canonicalize_body_simple ends with exactly one CRLF:
\* trailing blank lines are removed, the output never ends with two CRLFs.
C5_NoTrailingBlankLines ==
  Done("canonicalize_body_simple")
    => ends_with(ret, CRLF) /\ ~ends_with(ret, CRLF \o CRLF)

\* C6: an input that is empty or only whitespace and line breaks
\* canonicalizes to exactly one CRLF.
C6_BlankBodyIsOneCRLF ==
  Done("canonicalize_body_simple") /\ (\A i \in DOMAIN arg : IsWhitespace(arg[i]))
    => ret = CRLF

\* C7: canonicalize_body_simple is idempotent: applied to its own output
\* it returns that output.
C7_Idempotent == pc = "again" => ret = arg

\* C8: compute_body_hash(body, limit) is the SHA-256 digest of the first
\* limit bytes when 0 < limit < len(body) and of the whole body otherwise
\* (limit 0, limit = len(body), limit past the end), and it never fails by
\* reading past the buffer.
C8_BoundedBodyHash ==
  Done("compute_body_hash")
    => /\ ret.ok
       /\ 0 < arg.length /\ arg.length < Len(arg.body)
            => ret.val = sha256_hash(Take(arg.body, arg.length))
       /\ arg.length = 0 \/ arg.length >= Len(arg.body)
            => ret.val = sha256_hash(arg.body)

\* A limit inside the body whose digest is not the digest of the whole body
C8_TruncatedDigestReached ==
  /\ Done("compute_body_hash")
  /\ 0 < arg.length
  /\ arg.length < Len(arg.body)
  /\ ret.ok
  /\ ret.val # sha256_hash(arg.body)

\* The decoded signature has the wrong length for the algorithm: not 64
\* bytes for Ed25519, not the length of the modulus of the key for RSA
WrongSignatureLength ==
  LET sig == base64_decode(arg.signature)
      key == base64_decode(arg.public_key)
  IN  /\ sig.ok
      /\ \/ op = "verify_ed25519" /\ Len(sig.val) # SIGNATURE_LENGTH
         \/ /\ op = "verify_rsa_sha256"
            /\ key.ok
            /\ RsaPublicKey_from_pkcs1_der(key.val).ok
            /\ Len(sig.val) # RsaSize(RsaPublicKey_from_pkcs1_der(key.val).val)

\* C9: in verify_ed25519 and in verify_rsa_sha256 a signature that decodes
\* to the wrong length makes the call fail with an error; it is never
\* reported as a boolean.
C9_WrongLengthIsAnError ==
  pc = "done" /\ op \in {"verify_ed25519", "verify_rsa_sha256"} /\ WrongSignatureLength
    => ~ret.ok

\* verify_ed25519 was called with valid base64 of a 32-byte key and of a
\* 64-byte signature
WellFormedEd25519Call ==
  /\ Done("verify_ed25519")
  /\ base64_decode(arg.public_key).ok
  /\ base64_decode(arg.signature).ok
  /\ Len(base64_decode(arg.public_key).val) = PUBLIC_KEY_LENGTH
  /\ Len(base64_decode(arg.signature).val) = SIGNATURE_LENGTH

\* The call is the signed message with its signature and the signing key
MatchingEd25519Call ==
  /\ base64_decode(arg.public_key).val = Ed25519PublicKey
  /\ arg.message = Ed25519Message
  /\ base64_decode(arg.signature).val = Ed25519Signature

\* C10, as stated: with valid base64 of a 32-byte key and a 64-byte
\* signature the outcome is always a boolean, never an error: true for the
\* matching signature, false after a bit flip in message, signature or key.
C10_AlwaysBoolean ==
  WellFormedEd25519Call
    => /\ ret.ok
       /\ ret.val = MatchingEd25519Call

\* C10, amended: with valid base64 of a 32-byte key and a 64-byte signature
\* the outcome is a boolean exactly when the key bytes encode a curve point
\* and the error "Invalid Ed25519 key" otherwise; the boolean is true for
\* the matching signature and false after a bit flip in message, signature
\* or key, so a flipped key gives false or that error, never true.
C10_BooleanUnlessKeyIsNoPoint ==
  WellFormedEd25519Call
    => IF IsPointEncoding(base64_decode(arg.public_key).val)
         THEN ret.ok /\ ret.val = MatchingEd25519Call
         ELSE ~ret.ok /\ ret.err = "Invalid Ed25519 key"

\* A key one bit away from the signing key that is no curve point was refused
C10_FlippedKeyRefused ==
  /\ WellFormedEd25519Call
  /\ \E i \in FlipBits : base64_decode(arg.public_key).val = FlipBit(Ed25519PublicKey, i)
  /\ arg.message = Ed25519Message
  /\ base64_decode(arg.signature).val = Ed25519Signature
  /\ ~ret.ok

====
